---- MODULE Spec2Model ----
(***************************************************************************)
(* Model of the document resolution core of DocsPage.tsx: the module-level *)
(* single-flight document cache (docCache / loadDoc), the resolve effect   *)
(* of DocsPage (enumeration, stage-1 publish, selection, content load,     *)
(* stage-2 republish, cancellation) and the promise reactions and          *)
(* microtask queue through which its continuations run.                    *)
(* Strings are TLA+ strings; Len, SubSeq and \o give their characters.     *)
(***************************************************************************)
EXTENDS Integers, Sequences, FiniteSets, TLC

(***************************************************************************)
(* Bounds of the model.                                                    *)
(***************************************************************************)
\* number of resolve invocations (effect runs) in one behaviour
MaxInv == 2

\* number of documents of one language in the enumeration specification
MaxFiles == 4

\* length of the raw texts of the heading specification
MaxRaw == 5

\* number of pieces the texts of the normalizer specification are made of
MaxPieces == 4

\* length of the texts of the slugify specification
MaxText == 4

\* number of pieces the contents of the outline specification are made of
MaxOutline == 5

(***************************************************************************)
(* State.                                                                  *)
(***************************************************************************)
VARIABLES
  docCache,   \* the Map: key -> [st, val], st the state of the cached promise
  fetch,      \* per key: state of the promise loader() returned
  calls,      \* per key: how many times loader() has been called
  react,      \* per key: reactions registered on the cached promise, in order
  queue,      \* the microtask queue
  invs,       \* the effect runs so far; the last one is the current one
  content,    \* useState content
  topics,     \* useState topics
  log,        \* every setContent / setTopics call so far, in order
  escaped,    \* a rejection reached a promise nobody handles
  fnArg,      \* the argument of the pure function a function specification applies
  fnRes       \* its result, NoResult until the function has been applied

vars == <<docCache, fetch, calls, react, queue, invs, content, topics, log, escaped, fnArg, fnRes>>

(***************************************************************************)
(* Characters and strings.                                                 *)
(***************************************************************************)
Ch(s, i) == SubSeq(s, i, i)

Digits == {"0", "1", "2", "3", "4", "5", "6", "7", "8", "9"}

LowerLetters == "abcdefghijklmnopqrstuvwxyz"

UpperLetters == "ABCDEFGHIJKLMNOPQRSTUVWXYZ"

LowerSet == {Ch(LowerLetters, i) : i \in 1..26}

UpperSet == {Ch(UpperLetters, i) : i \in 1..26}

\* The grave accent U+0060 cannot be written in a TLA+ string: "~" stands for
\* it everywhere in this module (no document uses a real tilde).
Tick == "~"

\* \s of a JavaScript regular expression, restricted to the characters used
WhiteSpace == {" ", "\t", "\n", "\r"}

\* line terminators: what . does not match and where multiline ^ and $ match
LineTerm == {"\n", "\r"}

\* \w of a JavaScript regular expression
WordChar == LowerSet \cup UpperSet \cup Digits \cup {"_"}

IndexIn(letters, c) == CHOOSE i \in 1..Len(letters) : Ch(letters, i) = c

\* String.prototype.toUpperCase on one character
ToUpperCh(c) == IF c \in LowerSet THEN Ch(UpperLetters, IndexIn(LowerLetters, c)) ELSE c

\* String.prototype.toLowerCase on one character
ToLowerCh(c) == IF c \in UpperSet THEN Ch(LowerLetters, IndexIn(UpperLetters, c)) ELSE c

\* String.prototype.startsWith
StartsWith(s, p) == Len(s) >= Len(p) /\ SubSeq(s, 1, Len(p)) = p

\* String.prototype.endsWith
EndsWith(s, p) == Len(s) >= Len(p) /\ SubSeq(s, Len(s) - Len(p) + 1, Len(s)) = p

\* the text from position i to the end
From(s, i) == SubSeq(s, i, Len(s))

DigitVal(c) == CHOOSE d \in 0..9 : Ch("0123456789", d + 1) = c

\* parseInt(s, 10) on a string of digits
RECURSIVE ParseInt(_)
ParseInt(s) ==
  IF Len(s) = 0 THEN 0
  ELSE 10 * ParseInt(SubSeq(s, 1, Len(s) - 1)) + DigitVal(Ch(s, Len(s)))

(***************************************************************************)
(* The document store built by import.meta.glob over the content tree.    *)
(* docFiles maps each storage key to the raw text its loader yields and    *)
(* DocKeys lists the keys in the order Object.keys enumerates them.        *)
(***************************************************************************)
DocKeys ==
  << "../content/en/001_intro.md",
     "../content/en/index.md",
     "../content/ko/index.md" >>

docFiles ==
  ( "../content/en/001_intro.md" :> "Intro text<br>\n## Setup\nmore\n" ) @@
  ( "../content/en/index.md"     :> "\n  # Home\r\nWelcome<br/> all\n" ) @@
  ( "../content/ko/index.md"     :> "plain" )

KnownKeys == DOMAIN docFiles

\* the languages normalizeLanguageCode can yield
Languages == {"en", "ko"}

\* the topic slugs a route can request (params.topic ?? "index")
Slugs == {"index", "intro", "001_intro", "bogus"}

(***************************************************************************)
(* Enumeration of the documents of a language (effect, lines 108-142).     *)
(***************************************************************************)
\* Number.POSITIVE_INFINITY and Number.NEGATIVE_INFINITY as order values: the
\* parsed orders are 0..999, so these two integers sort exactly as the
\* infinities do
PosInf == 1000

NegInf == -1

\* k.split("/").pop()
RECURSIVE LastSegment(_)
LastSegment(k) ==
  IF \E i \in 1..Len(k) : Ch(k, i) = "/"
    THEN LastSegment(From(k, (CHOOSE i \in 1..Len(k) : Ch(k, i) = "/") + 1))
    ELSE k

\* filename.replace(/\.md$/, "")
StripMd(f) == IF EndsWith(f, ".md") THEN SubSeq(f, 1, Len(f) - 3) ELSE f

\* number of digits group 1 of /^(\d{2,3})[_-](.+)$/ takes (greedy), 0 if none
OrderDigits(base) ==
  IF Len(base) >= 3 /\ \A i \in 1..3 : Ch(base, i) \in Digits THEN 3
  ELSE IF Len(base) >= 2 /\ \A i \in 1..2 : Ch(base, i) \in Digits THEN 2
  ELSE 0

\* /^(\d{2,3})[_-](.+)$/.exec(base) succeeds
OrderMatches(base) ==
  LET n == OrderDigits(base) IN
    /\ n > 0
    /\ Len(base) >= n + 2
    /\ Ch(base, n + 1) \in {"_", "-"}
    /\ \A i \in (n + 2)..Len(base) : Ch(base, i) \notin LineTerm

ItemOrder(base) ==
  IF OrderMatches(base) THEN ParseInt(SubSeq(base, 1, OrderDigits(base)))
  ELSE IF base = "index" THEN NegInf
  ELSE PosInf

DisplaySlugOf(base) ==
  IF OrderMatches(base) THEN From(base, OrderDigits(base) + 2)
  ELSE IF base = "index" THEN "index"
  ELSE base

\* s.replace(/[-_]/g, " ")
RECURSIVE DashToSpace(_)
DashToSpace(s) ==
  IF Len(s) = 0 THEN ""
  ELSE (IF Ch(s, 1) \in {"-", "_"} THEN " " ELSE Ch(s, 1)) \o DashToSpace(From(s, 2))

\* s.replace(/\b\w/g, c => c.toUpperCase()): position i is a word character
\* at a word boundary
RECURSIVE CapWords(_, _)
CapWords(s, i) ==
  IF i > Len(s) THEN ""
  ELSE LET c == Ch(s, i)
           atB == c \in WordChar /\ (i = 1 \/ Ch(s, i - 1) \notin WordChar)
       IN (IF atB THEN ToUpperCh(c) ELSE c) \o CapWords(s, i + 1)

FallbackTitle(displaySlug) == CapWords(DashToSpace(displaySlug), 1)

MakeItem(k) ==
  LET base == StripMd(LastSegment(k)) IN
    [ fileKey     |-> k,
      slug        |-> base,
      displaySlug |-> DisplaySlugOf(base),
      title       |-> FallbackTitle(DisplaySlugOf(base)),
      order       |-> ItemOrder(base) ]

\* String.prototype.localeCompare under the root collation, on the characters
\* that titles are made of: space before digits before letters, letters
\* compared without case first, lower case before upper case on a tie
CollationOrder == " 0123456789abcdefghijklmnopqrstuvwxyz"

Primary(c) ==
  LET l == ToLowerCh(c) IN
    IF \E i \in 1..Len(CollationOrder) : Ch(CollationOrder, i) = l
      THEN IndexIn(CollationOrder, l)
      ELSE 0

RECURSIVE ComparePrimary(_, _)
ComparePrimary(a, b) ==
  IF Len(a) = 0 /\ Len(b) = 0 THEN 0
  ELSE IF Len(a) = 0 THEN -1
  ELSE IF Len(b) = 0 THEN 1
  ELSE IF Primary(Ch(a, 1)) < Primary(Ch(b, 1)) THEN -1
  ELSE IF Primary(Ch(a, 1)) > Primary(Ch(b, 1)) THEN 1
  ELSE ComparePrimary(From(a, 2), From(b, 2))

RECURSIVE CompareCase(_, _)
CompareCase(a, b) ==
  IF Len(a) = 0 \/ Len(b) = 0 THEN 0
  ELSE IF Ch(a, 1) = Ch(b, 1) THEN CompareCase(From(a, 2), From(b, 2))
  ELSE IF Ch(a, 1) \in LowerSet THEN -1
  ELSE 1

LocaleCompare(a, b) ==
  IF ComparePrimary(a, b) # 0 THEN ComparePrimary(a, b) ELSE CompareCase(a, b)

\* mutant of ItemCompare: the order alone decides
ItemCompareOrderOnly(a, b) == a.order - b.order

\* the comparator of items.sort (lines 140-142); negative: a before b
ItemCompare(a, b) ==
  IF a.order = b.order THEN LocaleCompare(a.title, b.title) ELSE a.order - b.order

\* insert x into the sorted sequence s behind every element not greater
RECURSIVE InsertSorted(_, _)
InsertSorted(s, x) ==
  IF Len(s) = 0 THEN <<x>>
  ELSE IF ItemCompare(x, Head(s)) < 0 THEN <<x>> \o s
  ELSE <<Head(s)>> \o InsertSorted(Tail(s), x)

\* Array.prototype.sort (stable) with ItemCompare
RECURSIVE SortItems(_)
SortItems(s) ==
  IF Len(s) = 0 THEN <<>>
  ELSE InsertSorted(SortItems(SubSeq(s, 1, Len(s) - 1)), s[Len(s)])

\* Object.keys(docFiles).filter(k => k.startsWith("../content/" + language + "/"))
LanguageKeys(language) ==
  SelectSeq(DocKeys, LAMBDA k : StartsWith(k, "../content/" \o language \o "/"))

\* keys.map(...) followed by items.sort(...) (lines 112-142)
ItemsFrom(keys) == SortItems([j \in 1..Len(keys) |-> MakeItem(keys[j])])

\* the sorted items of a language
Items(language) == ItemsFrom(LanguageKeys(language))

\* mutant of Stage1Topics: a title already in the cache is shown at once
Stage1TopicsCached(items) ==
  [j \in 1..Len(items) |->
     [ slug  |-> items[j].displaySlug,
       title |-> IF /\ items[j].fileKey \in DOMAIN docCache
                    /\ docCache[items[j].fileKey].st = "fulfilled"
                    /\ docCache[items[j].fileKey].val.title.has
                   THEN docCache[items[j].fileKey].val.title.text
                   ELSE items[j].title ]]

\* the stage-1 topic list (lines 145-147)
Stage1Topics(items) ==
  [j \in 1..Len(items) |-> [slug |-> items[j].displaySlug, title |-> items[j].title]]

(***************************************************************************)
(* Selection (lines 150-155) and the not-found placeholder.                *)
(***************************************************************************)
NoKey == ""

\* mutant of FallbackPath: the direct key is looked up in the default language
FallbackPathDefaultLanguage(language, desired) == "../content/en/" \o desired \o ".md"

FallbackPath(language, desired) == "../content/" \o language \o "/" \o desired \o ".md"

\* items.find(i => i.displaySlug === desired)?.fileKey, NoKey for undefined
FindBySlug(items, desired) ==
  IF \E j \in 1..Len(items) : items[j].displaySlug = desired
    THEN items[CHOOSE j \in 1..Len(items) :
                 /\ items[j].displaySlug = desired
                 /\ \A h \in 1..(j - 1) : items[h].displaySlug # desired].fileKey
    ELSE NoKey

\* mutant of ResolveKey: no direct key fallback
ResolveKeyNoFallback(language, desired) == FindBySlug(Items(language), desired)

ResolveKey(language, desired) ==
  LET found == FindBySlug(Items(language), desired) IN
    IF found # NoKey THEN found
    ELSE IF FallbackPath(language, desired) \in KnownKeys
      THEN FallbackPath(language, desired)
      ELSE NoKey

\* mutant of NotFound: the language is left out
NotFoundNoLanguage(language, desired) == "# 404\nNot found: " \o desired

NotFound(language, desired) == "# 404\nNot found: " \o language \o "/" \o desired

\* The effect computes items and resolved from language and currentTopic alone,
\* and loadDoc computes a document's value from its raw text alone: each is
\* tabulated once over the inputs of the model.
ItemsOf == [language \in Languages |-> Items(language)]

ResolvedOf == [language \in Languages |-> [desired \in Slugs |-> ResolveKey(language, desired)]]

(***************************************************************************)
(* normalizeMd (lines 27-46).                                              *)
(***************************************************************************)
\* raw.replace(/\r\n?/g, "\n")
RECURSIVE UnifyEol(_)
UnifyEol(s) ==
  IF Len(s) = 0 THEN ""
  ELSE IF Ch(s, 1) = "\r"
    THEN "\n" \o UnifyEol(From(s, IF Len(s) >= 2 /\ Ch(s, 2) = "\n" THEN 3 ELSE 2))
    ELSE Ch(s, 1) \o UnifyEol(From(s, 2))

\* s.split("\n")
RECURSIVE SplitLines(_)
SplitLines(s) ==
  IF \E i \in 1..Len(s) : Ch(s, i) = "\n"
    THEN LET i == CHOOSE i \in 1..Len(s) :
                    Ch(s, i) = "\n" /\ \A h \in 1..(i - 1) : Ch(s, h) # "\n"
         IN <<SubSeq(s, 1, i - 1)>> \o SplitLines(From(s, i + 1))
    ELSE <<s>>

\* lines.join("\n")
RECURSIVE JoinLines(_)
JoinLines(lines) ==
  IF Len(lines) = 0 THEN ""
  ELSE IF Len(lines) = 1 THEN lines[1]
  ELSE lines[1] \o "\n" \o JoinLines(Tail(lines))

\* first position at or after i that holds no white space (Len(s) + 1 if none)
RECURSIVE SkipSpace(_, _)
SkipSpace(s, i) ==
  IF i <= Len(s) /\ Ch(s, i) \in WhiteSpace THEN SkipSpace(s, i + 1) ELSE i

\* t.trimStart()
TrimStart(t) == From(t, SkipSpace(t, 1))

\* mutant of BrMatchLen: the lookahead (?=\s|$) is missing
BrMatchLenNoLookahead(t, i) ==
  IF /\ i + 2 <= Len(t)
     /\ Ch(t, i) = "<"
     /\ ToLowerCh(Ch(t, i + 1)) = "b"
     /\ ToLowerCh(Ch(t, i + 2)) = "r"
  THEN LET a == SkipSpace(t, i + 3)
           b == IF a <= Len(t) /\ Ch(t, a) = "/" THEN a + 1 ELSE a
       IN IF b <= Len(t) /\ Ch(t, b) = ">" THEN b - i + 1 ELSE 0
  ELSE 0

\* length of the match of /<br\s*\/?>(?=\s|$)/i at position i of t, 0 if none
BrMatchLen(t, i) ==
  IF /\ i + 2 <= Len(t)
     /\ Ch(t, i) = "<"
     /\ ToLowerCh(Ch(t, i + 1)) = "b"
     /\ ToLowerCh(Ch(t, i + 2)) = "r"
  THEN LET a == SkipSpace(t, i + 3)
           b == IF a <= Len(t) /\ Ch(t, a) = "/" THEN a + 1 ELSE a
       IN IF /\ b <= Len(t)
             /\ Ch(t, b) = ">"
             /\ (b = Len(t) \/ Ch(t, b + 1) \in WhiteSpace)
          THEN b - i + 1
          ELSE 0
  ELSE 0

\* t.replace(/<br\s*\/?>(?=\s|$)/gi, "\n"), scanning from position i
RECURSIVE ReplaceBr(_, _)
ReplaceBr(t, i) ==
  IF i > Len(t) THEN ""
  ELSE IF BrMatchLen(t, i) > 0 THEN "\n" \o ReplaceBr(t, i + BrMatchLen(t, i))
  ELSE Ch(t, i) \o ReplaceBr(t, i + 1)

\* mutant of NormalizeLines: the fence state is not looked at
RECURSIVE NormalizeLinesNoFence(_, _, _)
NormalizeLinesNoFence(lines, i, inFence) ==
  IF i > Len(lines) THEN <<>>
  ELSE <<ReplaceBr(lines[i], 1)>> \o NormalizeLinesNoFence(lines, i + 1, inFence)

\* the loop of normalizeMd over lines[i..], with the fence state on entry
RECURSIVE NormalizeLines(_, _, _)
NormalizeLines(lines, i, inFence) ==
  IF i > Len(lines) THEN <<>>
  ELSE IF StartsWith(TrimStart(lines[i]), Tick \o Tick \o Tick)
    THEN <<lines[i]>> \o NormalizeLines(lines, i + 1, ~inFence)
  ELSE IF inFence
    THEN <<lines[i]>> \o NormalizeLines(lines, i + 1, inFence)
  ELSE <<ReplaceBr(lines[i], 1)>> \o NormalizeLines(lines, i + 1, inFence)

\* the array out when the loop of normalizeMd has ended (line 45)
NormalizeOut(raw) == NormalizeLines(SplitLines(UnifyEol(raw)), 1, FALSE)

normalizeMd(raw) == JoinLines(NormalizeOut(raw))

(***************************************************************************)
(* The heading scan of loadDoc (line 71): /^\s*#\s+(.+)$/m.exec(raw).      *)
(***************************************************************************)
\* s.trim()
RECURSIVE TrimEnd(_)
TrimEnd(s) ==
  IF Len(s) > 0 /\ Ch(s, Len(s)) \in WhiteSpace THEN TrimEnd(SubSeq(s, 1, Len(s) - 1)) ELSE s

Trim(s) == TrimEnd(TrimStart(s))

\* first position at or after i that holds a line terminator (Len(s) + 1 if none)
RECURSIVE LineEnd(_, _)
LineEnd(s, i) ==
  IF i <= Len(s) /\ Ch(s, i) \notin LineTerm THEN LineEnd(s, i + 1) ELSE i

\* multiline ^ matches at position p
AtLineStart(s, p) == p = 1 \/ (p >= 2 /\ p <= Len(s) + 1 /\ Ch(s, p - 1) \in LineTerm)

\* first position at or after i that holds no "#" (Len(s) + 1 if none)
RECURSIVE SkipHashes(_, _)
SkipHashes(s, i) ==
  IF i <= Len(s) /\ Ch(s, i) = "#" THEN SkipHashes(s, i + 1) ELSE i

\* mutant of HeadingGroupStart: the pattern is /^\s*#+\s+(.+)$/m, a heading
\* of any level
HeadingGroupStartAnyLevel(s, p) ==
  LET q == SkipSpace(s, p)
      e == SkipHashes(s, q) - 1
      r == SkipSpace(s, e + 1)
      back == {g \in (e + 2)..Len(s) : Ch(s, g) \notin LineTerm}
  IN IF ~(q <= Len(s) /\ Ch(s, q) = "#") THEN 0
     ELSE IF r = e + 1 THEN 0
     ELSE IF r <= Len(s) THEN r
     ELSE IF back # {} THEN CHOOSE g \in back : \A h \in back : h <= g
     ELSE 0

\* where group 1 starts when the pattern is tried at line start p, 0 if the
\* attempt fails: \s* is greedy up to the "#", \s+ is greedy and gives back
\* one character at a time until (.+)$ can match
HeadingGroupStart(s, p) ==
  LET q == SkipSpace(s, p)
      r == SkipSpace(s, q + 1)
      back == {g \in (q + 2)..Len(s) : Ch(s, g) \notin LineTerm}
  IN IF ~(q <= Len(s) /\ Ch(s, q) = "#") THEN 0
     ELSE IF r = q + 1 THEN 0
     ELSE IF r <= Len(s) THEN r
     ELSE IF back # {} THEN CHOOSE g \in back : \A h \in back : h <= g
     ELSE 0

\* exec tries the start positions in increasing order
HeadingStarts(s) == {p \in 1..(Len(s) + 1) : AtLineStart(s, p) /\ HeadingGroupStart(s, p) > 0}

\* /^\s*#\s+(.+)$/m.exec(raw)?.[1].trim(); has = FALSE for undefined
ExtractHeading(raw) ==
  IF HeadingStarts(raw) = {} THEN [has |-> FALSE, text |-> ""]
  ELSE LET p == CHOOSE p \in HeadingStarts(raw) : \A h \in HeadingStarts(raw) : p <= h
           g == HeadingGroupStart(raw, p)
       IN [has |-> TRUE, text |-> Trim(SubSeq(raw, g, LineEnd(raw, g) - 1))]

(***************************************************************************)
(* slugify (lines 17-23).                                                  *)
(***************************************************************************)
\* text.toLowerCase()
RECURSIVE LowerCase(_)
LowerCase(t) == IF Len(t) = 0 THEN "" ELSE ToLowerCh(Ch(t, 1)) \o LowerCase(From(t, 2))

\* [a-z0-9\s-]
SlugKept == LowerSet \cup Digits \cup WhiteSpace \cup {"-"}

\* mutant of StripNonSlug: the g flag is missing, only the first character
\* outside the class is removed
StripFirstNonSlug(t) ==
  IF \A i \in 1..Len(t) : Ch(t, i) \in SlugKept THEN t
  ELSE LET i == CHOOSE i \in 1..Len(t) :
                  Ch(t, i) \notin SlugKept /\ \A h \in 1..(i - 1) : Ch(t, h) \in SlugKept
       IN SubSeq(t, 1, i - 1) \o From(t, i + 1)

\* .replace(/[^a-z0-9\s-]/g, "")
RECURSIVE StripNonSlug(_)
StripNonSlug(t) ==
  IF Len(t) = 0 THEN ""
  ELSE (IF Ch(t, 1) \in SlugKept THEN Ch(t, 1) ELSE "") \o StripNonSlug(From(t, 2))

\* .replace(/\s+/g, "-")
RECURSIVE HyphenateSpaces(_)
HyphenateSpaces(t) ==
  IF Len(t) = 0 THEN ""
  ELSE IF Ch(t, 1) \in WhiteSpace THEN "-" \o HyphenateSpaces(From(t, SkipSpace(t, 1)))
  ELSE Ch(t, 1) \o HyphenateSpaces(From(t, 2))

slugify(text) == HyphenateSpaces(Trim(StripNonSlug(LowerCase(text))))

(***************************************************************************)
(* The outline, toc (lines 193-206).                                       *)
(***************************************************************************)
\* m[2].replace(/~/g, "") with ~ the fence character
RECURSIVE RemoveTicks(_)
RemoveTicks(t) ==
  IF Len(t) = 0 THEN ""
  ELSE (IF Ch(t, 1) = Tick THEN "" ELSE Ch(t, 1)) \o RemoveTicks(From(t, 2))

\* /^(#{1,6})\s+(.+)$/.exec(t): hashes the length of group 1 and from the
\* start of group 2, ok = FALSE for null. #{1,6} is greedy and a seventh "#"
\* is no white space; \s+ is greedy and (.+) must reach the end of t
\* without crossing a line terminator
TocExec(t) ==
  LET n == SkipHashes(t, 1) - 1
      r == SkipSpace(t, n + 1)
  IN IF /\ n >= 1 /\ n <= 6
        /\ r > n + 1
        /\ r <= Len(t)
        /\ \A h \in r..Len(t) : Ch(t, h) \notin LineTerm
     THEN [ok |-> TRUE, hashes |-> n, from |-> r]
     ELSE [ok |-> FALSE, hashes |-> 0, from |-> 0]

\* lines 199-201: the entry of a matching line
TocItem(t, m) ==
  LET text == Trim(RemoveTicks(From(t, m.from)))
  IN [id |-> slugify(text), text |-> text, level |-> m.hashes]

\* mutant of TocPush: a heading whose id is already in the outline is left out
TocPushUnique(items, item) ==
  IF \E j \in 1..Len(items) : items[j].id = item.id THEN items ELSE Append(items, item)

\* items.push({ id, text, level })
TocPush(items, item) == Append(items, item)

\* the loop of lines 196-204 over lines[i..]
RECURSIVE TocLoop(_, _, _)
TocLoop(lines, i, items) ==
  IF i > Len(lines) THEN items
  ELSE LET t == Trim(lines[i])
           m == TocExec(t)
       IN TocLoop(lines, i + 1, IF m.ok THEN TocPush(items, TocItem(t, m)) ELSE items)

toc(text) == TocLoop(SplitLines(text), 1, <<>>)

\* the DocCacheValue the async function of loadDoc returns (lines 70-75)
DocValue(raw) == [normalized |-> normalizeMd(raw), title |-> ExtractHeading(raw)]

LoadedDoc == [k \in KnownKeys |-> DocValue(docFiles[k])]

(***************************************************************************)
(* Initial state and values.                                               *)
(***************************************************************************)
NoTopic == [slug |-> "", title |-> ""]

NoDoc == [normalized |-> "", title |-> [has |-> FALSE, text |-> ""]]

\* a reaction or a queued job: t its kind, i the effect run, j the item index,
\* k the document key, ok whether the promise it reacts to fulfilled, val the
\* value an async function of stage 2 returned
Job(t, i, j, k, ok, val) == [t |-> t, i |-> i, j |-> j, k |-> k, ok |-> ok, val |-> val]

\* the result variable before a function has been applied
NoResult == [done |-> FALSE]

\* nothing has run yet: the cache is empty and nothing is published
Idle ==
  /\ docCache = <<>>
  /\ fetch = [k \in KnownKeys |-> "idle"]
  /\ calls = [k \in KnownKeys |-> 0]
  /\ react = [k \in KnownKeys |-> <<>>]
  /\ queue = <<>>
  /\ invs = <<>>
  /\ content = ""
  /\ topics = <<>>
  /\ log = <<>>
  /\ escaped = FALSE

Init ==
  /\ Idle
  /\ fnArg = <<>>
  /\ fnRes = NoResult

(***************************************************************************)
(* loadDoc (lines 60-81) on a heap H = [docCache, fetch, calls, react,     *)
(* queue]; the result gets the field ret, the promise returned.            *)
(***************************************************************************)
\* mutant of Heap: the cleanup of the superseded run has aborted the loads
\* still pending and evicted their cache entries
HeapAfterAbort ==
  [ docCache |-> [k \in {h \in DOMAIN docCache : docCache[h].st # "pending"} |-> docCache[k]],
    fetch    |-> [k \in KnownKeys |-> IF fetch[k] = "inflight" THEN "idle" ELSE fetch[k]],
    calls    |-> calls,
    react    |-> [k \in KnownKeys |-> <<>>],
    queue    |-> queue ]

Heap == [docCache |-> docCache, fetch |-> fetch, calls |-> calls, react |-> react, queue |-> queue]

\* mutant of NeedsLoad: the cache is not consulted
NeedsLoadAlways(cache, fileKey) == TRUE

\* mutant of NeedsLoad: a rejected entry is loaded again
NeedsLoadRetry(cache, fileKey) ==
  fileKey \notin DOMAIN cache \/ cache[fileKey].st = "rejected"

\* !docCache.has(fileKey)
NeedsLoad(cache, fileKey) == fileKey \notin DOMAIN cache

loadDoc(H, fileKey) ==
  IF fileKey \notin KnownKeys
    THEN H @@ [ret |-> [cached |-> FALSE, key |-> fileKey]]
  ELSE IF NeedsLoad(H.docCache, fileKey)
    THEN [ docCache |-> (fileKey :> [st |-> "pending", val |-> NoDoc]) @@ H.docCache,
           fetch    |-> [H.fetch EXCEPT ![fileKey] = "inflight"],
           calls    |-> [H.calls EXCEPT ![fileKey] = @ + 1],
           react    |-> H.react,
           queue    |-> H.queue,
           ret      |-> [cached |-> TRUE, key |-> fileKey] ]
  ELSE H @@ [ret |-> [cached |-> TRUE, key |-> fileKey]]

\* register reaction r on the promise H.ret (then / await): queued at once
\* when the promise is settled, kept in registration order while it is pending
Then(H, r) ==
  LET k == H.ret.key
      base == [docCache |-> H.docCache, fetch |-> H.fetch, calls |-> H.calls,
               react |-> H.react, queue |-> H.queue]
  IN IF ~H.ret.cached
       THEN [base EXCEPT !.queue = Append(@, [r EXCEPT !.ok = FALSE])]
     ELSE IF H.docCache[k].st = "pending"
       THEN [base EXCEPT !.react[k] = Append(@, r)]
     ELSE [base EXCEPT !.queue = Append(@, [r EXCEPT !.ok = (H.docCache[k].st = "fulfilled")])]

(***************************************************************************)
(* The resolve effect (lines 97-191).                                      *)
(***************************************************************************)
Cur == Len(invs)

\* mutant of Live: the test of the flag is inverted
LiveInverted(i) == invs[i].cancelled

\* mutant of Live: the continuation does not look at the flag
LiveAlways(i) == TRUE

\* !cancelled in the closure of effect run i
Live(i) == ~invs[i].cancelled

\* resolved && docFiles[resolved] (line 157)
HasDoc(resolved) == resolved # NoKey /\ resolved \in KnownKeys

\* mutant of ContentLoad: the content continuation is attached to the load
\* of another document
ContentLoadBehindOther(H, i, resolved) ==
  IF HasDoc(resolved)
    THEN Then(loadDoc(loadDoc(H, resolved), CHOOSE k \in KnownKeys : k # resolved),
              Job("thenA", i, 0, resolved, FALSE, NoTopic))
    ELSE H

\* lines 157-171: the content load is started, or the placeholder is set
ContentLoad(H, i, resolved) ==
  IF HasDoc(resolved)
    THEN Then(loadDoc(H, resolved), Job("thenA", i, 0, resolved, FALSE, NoTopic))
    ELSE H

\* lines 174-181 up to the await, for items[j..]
RECURSIVE Stage2Start(_, _, _, _)
Stage2Start(H, i, items, j) ==
  IF j > Len(items) THEN H
  ELSE Stage2Start(
         Then(loadDoc(H, items[j].fileKey), Job("await", i, j, items[j].fileKey, FALSE, NoTopic)),
         i, items, j + 1)

\* Promise.all of an empty list is fulfilled at once
AllStart(H, i, items) ==
  IF Len(items) = 0
    THEN [H EXCEPT !.queue = Append(@, Job("allThen", i, 0, NoKey, TRUE, NoTopic))]
    ELSE H

Resolve(language, desired) ==
  LET i == Cur + 1
      items == ItemsOf[language]
      resolved == ResolvedOf[language][desired]
      hasDoc == HasDoc(resolved)
      H == AllStart(Stage2Start(ContentLoad(Heap, i, resolved), i, items, 1), i, items)
      placeholder == NotFound(language, desired)
  IN
    /\ Cur < MaxInv
    /\ Cur > 0 => <<invs[Cur].language, invs[Cur].desired>> # <<language, desired>>
    /\ invs' = [h \in 1..i |->
                  IF h < i THEN [invs[h] EXCEPT !.cancelled = TRUE]
                  ELSE [ language  |-> language,
                         desired   |-> desired,
                         cancelled |-> FALSE,
                         values    |-> [j \in 1..Len(items) |-> NoTopic],
                         remaining |-> Len(items) ]]
    /\ topics' = Stage1Topics(items)
    /\ content' = IF hasDoc THEN content ELSE placeholder
    /\ log' = log \o <<[i |-> i, kind |-> "topics", val |-> Stage1Topics(items)]>>
                  \o (IF hasDoc THEN <<>> ELSE <<[i |-> i, kind |-> "content", val |-> placeholder]>>)
    /\ docCache' = H.docCache
    /\ fetch' = H.fetch
    /\ calls' = H.calls
    /\ react' = H.react
    /\ queue' = H.queue
    /\ UNCHANGED escaped
    /\ UNCHANGED <<fnArg, fnRes>>

\* the promise loader() returned settles: the async function of loadDoc resumes
FetchSettle(k, ok) ==
  /\ fetch[k] = "inflight"
  /\ fetch' = [fetch EXCEPT ![k] = IF ok THEN "ok" ELSE "failed"]
  /\ queue' = Append(queue, Job("iife", 0, 0, k, ok, NoTopic))
  /\ UNCHANGED <<docCache, calls, react, invs, content, topics, log, escaped>>
  /\ UNCHANGED <<fnArg, fnRes>>

(***************************************************************************)
(* Microtasks: the job at the head of the queue runs to completion.        *)
(***************************************************************************)
HeadIs(t) == Len(queue) > 0 /\ Head(queue).t = t

setContent(i, v) ==
  /\ content' = v
  /\ log' = Append(log, [i |-> i, kind |-> "content", val |-> v])

setTopics(i, v) ==
  /\ topics' = v
  /\ log' = Append(log, [i |-> i, kind |-> "topics", val |-> v])

\* the jobs of the reactions of a promise that settles with outcome ok
ReactionJobs(reactions, ok) == [n \in 1..Len(reactions) |-> [reactions[n] EXCEPT !.ok = ok]]

\* mutant of Settlement: a failed fetch is swallowed and an empty document
\* is cached as a success
SettlementSwallowsFailure(k, ok) ==
  IF ok THEN [st |-> "fulfilled", val |-> LoadedDoc[k]]
  ELSE [st |-> "fulfilled", val |-> NoDoc]

\* how the async function of lines 68-76 settles the cached promise: with
\* the pair it returns, or rejected when await loader() threw
Settlement(k, ok) ==
  IF ok THEN [st |-> "fulfilled", val |-> LoadedDoc[k]]
  ELSE [st |-> "rejected", val |-> NoDoc]

\* lines 70-75 after the await: the cached promise of the key settles
RunLoad ==
  /\ HeadIs("iife")
  /\ LET job == Head(queue)
         k == job.k
     IN /\ docCache' = [docCache EXCEPT ![k] = Settlement(k, job.ok)]
        /\ queue' = Tail(queue) \o ReactionJobs(react[k], job.ok)
        /\ react' = [react EXCEPT ![k] = <<>>]
  /\ UNCHANGED <<fetch, calls, invs, content, topics, log, escaped>>
  /\ UNCHANGED <<fnArg, fnRes>>

\* lines 159-163: the reaction .then(doc => ...) registered on the cached
\* promise; it has no rejection handler, so a rejection passes on to .catch
RunThen ==
  /\ HeadIs("thenA")
  /\ LET job == Head(queue) IN
       /\ IF job.ok /\ Live(job.i)
            THEN setContent(job.i, docCache[job.k].val.normalized)
            ELSE UNCHANGED <<content, log>>
       /\ queue' = Append(Tail(queue), Job("catchB", job.i, 0, job.k, job.ok, NoTopic))
  /\ UNCHANGED <<docCache, fetch, calls, react, invs, topics, escaped>>
  /\ UNCHANGED <<fnArg, fnRes>>

\* lines 164-168: the reaction .catch(() => ...)
RunCatch ==
  /\ HeadIs("catchB")
  /\ LET job == Head(queue) IN
       /\ IF ~job.ok /\ Live(job.i)
            THEN setContent(job.i, NotFound(invs[job.i].language, invs[job.i].desired))
            ELSE UNCHANGED <<content, log>>
       /\ queue' = Tail(queue)
  /\ UNCHANGED <<docCache, fetch, calls, react, invs, topics, escaped>>
  /\ UNCHANGED <<fnArg, fnRes>>

\* doc.title ?? title (line 177)
TitleOf(doc, title) == IF doc.title.has THEN doc.title.text ELSE title

\* mutant of Stage2Result: no try/catch, a failed load rejects
Stage2NoCatch(item, loaded, doc) ==
  [ ok  |-> loaded,
    val |-> [slug |-> item.displaySlug, title |-> IF loaded THEN TitleOf(doc, item.title) ELSE item.title] ]

\* what the async function of stage 2 settles with (lines 175-180): ok = FALSE
\* would be a rejection
Stage2Result(item, loaded, doc) ==
  IF loaded
    THEN [ok |-> TRUE, val |-> [slug |-> item.displaySlug, title |-> TitleOf(doc, item.title)]]
    ELSE [ok |-> TRUE, val |-> [slug |-> item.displaySlug, title |-> item.title]]

\* lines 175-180 after the await
RunAwait ==
  /\ HeadIs("await")
  /\ LET job == Head(queue)
         item == ItemsOf[invs[job.i].language][job.j]
         res == Stage2Result(item, job.ok, docCache[job.k].val)
     IN queue' = Append(Tail(queue), Job("allElem", job.i, job.j, job.k, res.ok, res.val))
  /\ UNCHANGED <<docCache, fetch, calls, react, invs, content, topics, log, escaped>>
  /\ UNCHANGED <<fnArg, fnRes>>

\* mutant of StoreValue: values are kept in the order the loads complete
StoreValueInArrivalOrder(values, j, val) ==
  LET free == {h \in 1..Len(values) : values[h] = NoTopic}
  IN [values EXCEPT ![CHOOSE h \in free : \A g \in free : h <= g] = val]

\* Promise.all stores the value of element j at index j
StoreValue(values, j, val) == [values EXCEPT ![j] = val]

\* mutant of AllDone: the first element to settle decides (Promise.race)
AllDoneAny(remaining) == TRUE

\* Promise.all is fulfilled when no element is outstanding
AllDone(remaining) == remaining = 0

\* the reaction Promise.all registered on element j of its argument
RunAllElement ==
  /\ HeadIs("allElem")
  /\ LET job == Head(queue)
         inv == invs[job.i]
     IN IF job.ok
          THEN /\ invs' = [invs EXCEPT ![job.i].values = StoreValue(inv.values, job.j, job.val),
                                        ![job.i].remaining = inv.remaining - 1]
               /\ queue' = IF AllDone(inv.remaining - 1)
                             THEN Append(Tail(queue), Job("allThen", job.i, 0, NoKey, TRUE, NoTopic))
                             ELSE Tail(queue)
               /\ UNCHANGED escaped
          ELSE /\ escaped' = TRUE
               /\ queue' = Tail(queue)
               /\ UNCHANGED invs
  /\ UNCHANGED <<docCache, fetch, calls, react, content, topics, log>>
  /\ UNCHANGED <<fnArg, fnRes>>

\* lines 182-186: .then(loadedTopics => ...)
RunAllThen ==
  /\ HeadIs("allThen")
  /\ LET job == Head(queue) IN
       /\ IF Live(job.i)
            THEN setTopics(job.i, invs[job.i].values)
            ELSE UNCHANGED <<topics, log>>
       /\ queue' = Tail(queue)
  /\ UNCHANGED <<docCache, fetch, calls, react, invs, content, escaped>>
  /\ UNCHANGED <<fnArg, fnRes>>

RunJob == RunLoad \/ RunThen \/ RunCatch \/ RunAwait \/ RunAllElement \/ RunAllThen

Next ==
  \/ \E language \in Languages, desired \in Slugs : Resolve(language, desired)
  \/ \E k \in KnownKeys, ok \in BOOLEAN : FetchSettle(k, ok)
  \/ RunLoad
  \/ RunThen
  \/ RunCatch
  \/ RunAwait
  \/ RunAllElement
  \/ RunAllThen

\* every queued microtask runs, and every fetch that was started settles
Fairness ==
  /\ WF_vars(RunJob)
  /\ \A k \in KnownKeys : WF_vars(\E ok \in BOOLEAN : FetchSettle(k, ok))

FairSpec == Init /\ [][Next]_vars /\ Fairness

Spec == Init /\ [][Next]_vars

(***************************************************************************)
(* What the page renders from topics and currentTopic: the current topic   *)
(* of the sidebar (lines 310, 604) and the previous / next links (lines    *)
(* 509-514).                                                               *)
(***************************************************************************)
\* params["topic"] ?? "index" as the current effect run saw it (line 90)
currentTopic == invs[Cur].desired

\* topics.findIndex(t => t.slug === slug): the index from 0, -1 if none
FindIndex(list, slug) ==
  IF \E j \in 1..Len(list) : list[j].slug = slug
    THEN (CHOOSE j \in 1..Len(list) :
            list[j].slug = slug /\ \A h \in 1..(j - 1) : list[h].slug # slug) - 1
    ELSE -1

\* idx > 0 ? topics[idx - 1] : null, NoTopic for null
PrevTopic(list, slug) ==
  LET idx == FindIndex(list, slug) IN
    IF idx > 0 THEN list[idx] ELSE NoTopic

\* mutant of NextTopic: the test idx >= 0 is missing
NextTopicNoGuard(list, slug) ==
  LET idx == FindIndex(list, slug) IN
    IF idx < Len(list) - 1 THEN list[idx + 2] ELSE NoTopic

\* idx >= 0 && idx < topics.length - 1 ? topics[idx + 1] : null
NextTopic(list, slug) ==
  LET idx == FindIndex(list, slug) IN
    IF idx >= 0 /\ idx < Len(list) - 1 THEN list[idx + 2] ELSE NoTopic

\* currentTopic === t.slug: the sidebar entries shown as current
CurrentEntries(list, slug) == {j \in 1..Len(list) : slug = list[j].slug}

(***************************************************************************)
(* Function specifications: the argument of a pure function of the page is *)
(* drawn from a bounded set and one action applies the function to it.     *)
(***************************************************************************)
pageVars == <<docCache, fetch, calls, react, queue, invs, content, topics, log, escaped>>

Result(v) == [done |-> TRUE, val |-> v]

\* file name stems of the enumeration specification
Stems == {"index", "001_intro", "010-advanced", "readme", "about",
          "12_", "1_a", "0001_x", "02-b", "02_a", "01-intro"}

StemKey(stem) == "../content/en/" \o stem \o ".md"

\* every order in which the store can enumerate up to MaxFiles documents
EnumInputs ==
  {s \in UNION {[1..n -> {StemKey(st) : st \in Stems}] : n \in 0..MaxFiles} :
     \A a, b \in DOMAIN s : a # b => s[a] # s[b]}

EnumInit == Idle /\ fnArg \in EnumInputs /\ fnRes = NoResult

\* lines 112-142 applied to the enumerated keys
Enumerate ==
  /\ ~fnRes.done
  /\ fnRes' = Result(ItemsFrom(fnArg))
  /\ UNCHANGED <<fnArg, pageVars>>

EnumSpec == EnumInit /\ [][Enumerate]_vars

\* every string of at most n characters of the set chars
RECURSIVE StringsUpTo(_, _)
StringsUpTo(chars, n) ==
  IF n = 0 THEN {""}
  ELSE LET shorter == StringsUpTo(chars, n - 1)
       IN shorter \cup {t \o c : t \in shorter, c \in chars}

\* raw document texts: every short text of heading markers, blanks, line
\* ends and letters, and some longer documents
RawExamples ==
  { docFiles[k] : k \in KnownKeys } \cup
  { "## Sub\r\n  # Main title \r\ntext",
    "# Title\n\nSome text\n## Sub ~code~ Heading\n",
    "text\n### Deep\n#### Deeper\n",
    "#\n\n## Next line\n",
    "no heading at all\n" }

RawInputs == StringsUpTo({"#", " ", "a", "\n", "\r"}, MaxRaw) \cup RawExamples

RawInit == Idle /\ fnArg \in RawInputs /\ fnRes = NoResult

\* the async function of loadDoc (lines 68-76) once loader() has delivered
\* the raw text
LoadRaw ==
  /\ ~fnRes.done
  /\ fnRes' = Result(DocValue(fnArg))
  /\ UNCHANGED <<fnArg, pageVars>>

RawSpec == RawInit /\ [][LoadRaw]_vars

\* every concatenation of at most n pieces
RECURSIVE Concatenations(_, _)
Concatenations(pieces, n) ==
  IF n = 0 THEN {""}
  ELSE LET shorter == Concatenations(pieces, n - 1)
       IN shorter \cup {t \o c : t \in shorter, c \in pieces}

\* markdown texts: fence markers, break markers, blanks, line ends and text
\* in every arrangement of a few pieces, and some longer documents
MdPieces == {"~~~", "<br>", "<BR/>", "<br >", "\n", "\r", " ", "x"}

MdExamples ==
  { docFiles[k] : k \in KnownKeys } \cup
  { "~~~\n<br>\n~~~\n<br>",
    "a<br>\n  ~~~js <br>\nb<Br />\r\n\t~~~~\nc<br/>\n~~~\nd<BR>\n",
    "Welcome<BR/> all\r\nx<br >\rno<br>x",
    "one<br />two<br />\nthree<br\t/>",
    "<br/><br> <br  /><b r><br/ >",
    "~~ ~\n<br>" }

MdInputs == Concatenations(MdPieces, MaxPieces) \cup MdExamples

MdInit == Idle /\ fnArg \in MdInputs /\ fnRes = NoResult

\* normalizeMd (lines 27-46): out is the array the loop filled, text the
\* string returned
Normalize ==
  /\ ~fnRes.done
  /\ fnRes' = Result([out |-> NormalizeOut(fnArg), text |-> normalizeMd(fnArg)])
  /\ UNCHANGED <<fnArg, pageVars>>

MdSpec == MdInit /\ [][Normalize]_vars

\* heading texts: every short text of letters of both cases, digits,
\* hyphens, blanks and punctuation, and some longer ones
TextExamples ==
  { "Hello, World! 2.0", "  Getting   Started  ", "API - v2_x", "Sub code Heading", "\tTab\tand\nline " }

TextInputs == StringsUpTo({"a", "B", "1", "-", " ", "\t", "!", "_"}, MaxText) \cup TextExamples

TextInit == Idle /\ fnArg \in TextInputs /\ fnRes = NoResult

\* slugify (lines 17-23)
Slugify ==
  /\ ~fnRes.done
  /\ fnRes' = Result(slugify(fnArg))
  /\ UNCHANGED <<fnArg, pageVars>>

TextSpec == TextInit /\ [][Slugify]_vars

\* contents: heading markers of level 1 and 6, blanks, text, fence
\* characters and line ends in every arrangement of a few pieces, and some
\* longer documents
ContentExamples ==
  { LoadedDoc[k].normalized : k \in KnownKeys } \cup
  { NotFound("en", "bogus"),
    "# Title\n\nSome text\n## Sub ~code~ Heading\n",
    "# A\n~~~\n## in ~fence~\n~~~\n# A",
    "####### seven\n###### six\n#nospace\n  ### Indented  \ntext # not a heading",
    "#\t~~\n# ~ ~\n##  Two  blanks" }

ContentInputs == Concatenations({"#", "######", " ", "a", "~", "\n"}, MaxOutline) \cup ContentExamples

ContentInit == Idle /\ fnArg \in ContentInputs /\ fnRes = NoResult

\* the useMemo of lines 193-206
Outline ==
  /\ ~fnRes.done
  /\ fnRes' = Result(toc(fnArg))
  /\ UNCHANGED <<fnArg, pageVars>>

OutlineSpec == ContentInit /\ [][Outline]_vars

(***************************************************************************)
(* Properties.                                                             *)
(***************************************************************************)
Invocations == 1..Cur

\* the positions of the log written by effect run i
LogOf(i) == {n \in 1..Len(log) : log[n].i = i}

ContentAt(i) == {n \in LogOf(i) : log[n].kind = "content"}

TopicsAt(i) == {n \in LogOf(i) : log[n].kind = "topics"}

HasContent(i) == ContentAt(i) # {}

\* the key effect run i resolved
KeyOf(i) == ResolvedOf[invs[i].language][invs[i].desired]

\* no microtask is queued and no fetch is outstanding
Quiet == queue = <<>> /\ \A k \in KnownKeys : fetch[k] # "inflight"

Settled(k) == k \in DOMAIN docCache /\ docCache[k].st # "pending"

\* C1: no continuation of a superseded effect run writes the published
\* content or the published topic list: every setContent and setTopics call
\* a step makes belongs to a run that is not cancelled after the step, and
\* content and topics change by such calls only.
C1_NoStaleWrite ==
  [][ /\ \A n \in (Len(log) + 1)..Len(log') : ~invs'[log'[n].i].cancelled
      /\ (content' # content \/ topics' # topics) => Len(log') > Len(log)
    ]_vars

\* run 1 was superseded with its document still loading; the load then
\* succeeded, all its continuations (content, stage 2) have run, and the only
\* thing it ever published is its stage-1 list
C1_Witness ==
  /\ Cur = 2
  /\ HasDoc(KeyOf(1))
  /\ docCache[KeyOf(1)].st = "fulfilled"
  /\ invs[1].remaining = 0
  /\ queue = <<>>
  /\ Cardinality(LogOf(1)) = 1

\* what effect run i must end up showing: the normalized text of its
\* document, or its placeholder when nothing resolved or the load failed
FinalContent(i) ==
  IF HasDoc(KeyOf(i)) /\ docCache[KeyOf(i)].st = "fulfilled"
    THEN normalizeMd(docFiles[KeyOf(i)])
    ELSE "# 404\nNot found: " \o invs[i].language \o "/" \o invs[i].desired

\* C2: after resolve(en, a) and then resolve(en, b), once every fetch has
\* settled and every continuation has run, the published content is the one
\* of topic b, in every order the loads settle.
C2_LastWins ==
  (Cur = 2 /\ invs[1].language = "en" /\ invs[2].language = "en" /\ Quiet)
    => content = FinalContent(2)

\* a was superseded before it published content, the loads of a and b both
\* succeeded with different texts, and the content shown is the one of b
C2_Witness ==
  /\ Cur = 2 /\ invs[1].language = "en" /\ invs[2].language = "en" /\ Quiet
  /\ ~HasContent(1)
  /\ HasDoc(KeyOf(1)) /\ docCache[KeyOf(1)].st = "fulfilled"
  /\ HasDoc(KeyOf(2)) /\ docCache[KeyOf(2)].st = "fulfilled"
  /\ LoadedDoc[KeyOf(1)].normalized # LoadedDoc[KeyOf(2)].normalized
  /\ content = "\n  # Home\nWelcome\n all\n"

\* C3: single flight: the loader of a key is called at most once, exactly
\* once when the key has a cache entry, and every caller that asked while
\* the load was pending waits on that one cached promise.
C3_SingleFlight ==
  \A k \in KnownKeys :
    /\ calls[k] <= 1
    /\ (k \in DOMAIN docCache) = (calls[k] = 1)
    /\ react[k] # <<>> => (k \in DOMAIN docCache /\ docCache[k].st = "pending")

\* one fetch serves the content load and the stage-2 loads of two effect runs
C3_Witness ==
  \E k \in KnownKeys :
    /\ calls[k] = 1
    /\ \E a, b, c \in 1..Len(react[k]) :
         /\ react[k][a].t = "thenA" /\ react[k][a].i = 1
         /\ react[k][b].t = "await" /\ react[k][b].i = 1
         /\ react[k][c].t = "await" /\ react[k][c].i = 2

\* the not-found placeholder of effect run i, spelled out
Placeholder(i) == "# 404\nNot found: " \o invs[i].language \o "/" \o invs[i].desired

\* a content continuation of effect run i is queued
ContentPending(i) ==
  \E n \in 1..Len(queue) : queue[n].i = i /\ queue[n].t \in {"thenA", "catchB"}

FirstOf(S) == CHOOSE n \in S : \A m \in S : n <= m

\* C4: every effect run that is not superseded eventually publishes a content
\* value when every fetch settles; the value is the normalized text of the
\* selected document when its load succeeded and the placeholder otherwise,
\* and no rejection is left unhandled.
C4_AlwaysSettles ==
  /\ \A i \in 1..MaxInv :
       (Cur >= i) ~> (Cur >= i /\ (invs[i].cancelled \/ HasContent(i)))
  /\ [](~escaped)
  /\ [](\A i \in Invocations : \A n \in ContentAt(i) :
          IF HasDoc(KeyOf(i)) /\ docCache[KeyOf(i)].st = "fulfilled"
            THEN log[n].val = normalizeMd(docFiles[KeyOf(i)])
            ELSE log[n].val = Placeholder(i))

\* a run that was never superseded has published the placeholder after the
\* fetch of its document failed
C4_Witness ==
  /\ Cur = 1
  /\ HasDoc(KeyOf(1))
  /\ fetch[KeyOf(1)] = "failed"
  /\ HasContent(1)
  /\ content = Placeholder(1)

\* the keys the selection rule allows for (language, desired)
AllowedKeys(language, desired) ==
  LET items == ItemsOf[language]
      hits == {j \in 1..Len(items) : items[j].displaySlug = desired}
      direct == "../content/" \o language \o "/" \o desired \o ".md"
  IN IF hits # {} THEN {items[j].fileKey : j \in hits}
     ELSE IF direct \in KnownKeys THEN {direct}
     ELSE {NoKey}

\* C5: the document an effect run loads for its content is an enumerated
\* entry whose displaySlug is the requested slug if there is one, else the
\* direct key language/slug.md if it is a known key, else none; the slug
\* 001_intro, which is no displaySlug, resolves the file 001_intro.md.
C5_Selection ==
  \A i \in Invocations :
    LET allowed == AllowedKeys(invs[i].language, invs[i].desired) IN
      /\ \A n \in 1..Len(queue) :
           (queue[n].i = i /\ queue[n].t \in {"thenA", "catchB"}) => queue[n].k \in allowed
      /\ \A k \in KnownKeys : \A n \in 1..Len(react[k]) :
           (react[k][n].i = i /\ react[k][n].t = "thenA") => (k \in allowed /\ react[k][n].k = k)
      /\ \A n \in ContentAt(i) :
           \/ /\ log[n].val = Placeholder(i)
              /\ \/ allowed = {NoKey}
                 \/ \E k \in allowed : k \in DOMAIN docCache /\ docCache[k].st = "rejected"
           \/ \E k \in allowed \ {NoKey} :
                /\ k \in DOMAIN docCache /\ docCache[k].st = "fulfilled"
                /\ log[n].val = normalizeMd(docFiles[k])
      /\ (allowed # {NoKey} /\ ~invs[i].cancelled /\ ~HasContent(i)) =>
           \E k \in allowed :
             \/ \E n \in 1..Len(react[k]) : react[k][n].i = i /\ react[k][n].t = "thenA"
             \/ ContentPending(i)
      /\ (invs[i].language = "en" /\ invs[i].desired = "001_intro") =>
           \A n \in ContentAt(i) :
             log[n].val \in {"Intro text\n\n## Setup\nmore\n", "# 404\nNot found: en/001_intro"}

\* the slug 001_intro equals no displaySlug of en, and the run that asked for
\* it shows the text of 001_intro.md
C5_Witness ==
  /\ Cur >= 1
  /\ invs[Cur].language = "en" /\ invs[Cur].desired = "001_intro"
  /\ \A j \in 1..Len(ItemsOf["en"]) : ItemsOf["en"][j].displaySlug # "001_intro"
  /\ HasContent(Cur)
  /\ content = "Intro text\n\n## Setup\nmore\n"

\* C6: when no key resolves, or the load of the resolved key fails while
\* the run is current, the content published is the two-line placeholder
\* made of that run's own language and slug.
C6_NotFound ==
  /\ \A i \in Invocations :
       /\ ~HasDoc(KeyOf(i)) =>
            (HasContent(i) /\ \A n \in ContentAt(i) : log[n].val = Placeholder(i))
       /\ (HasDoc(KeyOf(i)) /\ docCache[KeyOf(i)].st = "rejected") =>
            /\ \A n \in ContentAt(i) : log[n].val = Placeholder(i)
            /\ (~invs[i].cancelled /\ ~ContentPending(i)) => HasContent(i)
       /\ (invs[i].language = "en" /\ invs[i].desired = "bogus") =>
            \E n \in ContentAt(i) : log[n].val = "# 404\nNot found: en/bogus"
  /\ (Cur > 0 /\ ~HasDoc(KeyOf(Cur))) => content = Placeholder(Cur)
  /\ (Cur > 0 /\ HasDoc(KeyOf(Cur)) /\ docCache[KeyOf(Cur)].st = "rejected"
        /\ ~ContentPending(Cur)) => content = Placeholder(Cur)

\* the second run asked for en/intro after a run for ko/bogus; the load of
\* its document failed and its own placeholder is shown
C6_Witness ==
  /\ Cur = 2
  /\ invs[1].language = "ko" /\ invs[1].desired = "bogus"
  /\ invs[2].language = "en" /\ invs[2].desired = "intro"
  /\ docCache[KeyOf(2)].st = "rejected"
  /\ content = "# 404\nNot found: en/intro"

\* the stage-1 list of each language of the store, spelled out
ExpectedStage1(language) ==
  IF language = "en"
    THEN << [slug |-> "index", title |-> "Index"], [slug |-> "intro", title |-> "Intro"] >>
    ELSE << [slug |-> "index", title |-> "Index"] >>

\* C7: the first thing every effect run publishes is the sorted topic list
\* of its language with the fallback title of every entry, before any content
\* and before its stage-2 list, also when extracted titles are cached.
C7_Stage1First ==
  \A i \in Invocations :
    /\ LogOf(i) # {}
    /\ log[FirstOf(LogOf(i))].kind = "topics"
    /\ log[FirstOf(LogOf(i))].val = ExpectedStage1(invs[i].language)
    /\ log[FirstOf(LogOf(i))].val = [j \in 1..Len(ItemsOf[invs[i].language]) |->
         [ slug  |-> ItemsOf[invs[i].language][j].displaySlug,
           title |-> FallbackTitle(ItemsOf[invs[i].language][j].displaySlug) ]]

\* run 1 republished the extracted title Home, so it was in the cache when
\* run 2 started; run 2 has published its stage-1 list only, with Index
C7_Witness ==
  /\ Cur = 2
  /\ invs[1].language = "en" /\ invs[2].language = "en"
  /\ \E n \in TopicsAt(1) : log[n].val[1].title = "Home"
  /\ Cardinality(LogOf(2)) = 1
  /\ topics[1].title = "Index"

\* C8: the stage-2 republish of an effect run never precedes the content
\* publish of that run.
C8_ContentBeforeStage2 ==
  \A i \in Invocations : \A n \in TopicsAt(i) :
    n # FirstOf(LogOf(i)) => \E m \in ContentAt(i) : m < n

\* a run whose document failed to load published the placeholder and then
\* its stage-2 list
C8_Witness ==
  \E i \in Invocations :
    /\ HasDoc(KeyOf(i))
    /\ docCache[KeyOf(i)].st = "rejected"
    /\ Cardinality(TopicsAt(i)) = 2
    /\ HasContent(i)

\* C9: the content of the current run is published once the load of its own
\* document has settled and its continuation has run, whatever the state of
\* the other loads.
C9_ContentNotBlocked ==
  (Cur > 0 /\ HasDoc(KeyOf(Cur)) /\ Settled(KeyOf(Cur)) /\ ~ContentPending(Cur))
    => HasContent(Cur)

\* the text of 001_intro.md is shown while index.md is still being fetched
C9_Witness ==
  /\ Cur > 0
  /\ invs[Cur].language = "en"
  /\ KeyOf(Cur) = "../content/en/001_intro.md"
  /\ content = LoadedDoc[KeyOf(Cur)].normalized
  /\ HasContent(Cur)
  /\ fetch["../content/en/index.md"] = "inflight"
  /\ Cardinality(TopicsAt(Cur)) = 1

\* C10: the stage-2 list of an effect run has the length, the slugs and the
\* order of its stage-1 list, and each title is the extracted title of the
\* entry's document when it loaded and has one, else the fallback title.
C10_Stage2Titles ==
  \A i \in Invocations : \A n \in TopicsAt(i) :
    n # FirstOf(LogOf(i)) =>
      LET first == log[FirstOf(LogOf(i))].val
          v == log[n].val
          items == ItemsOf[invs[i].language]
      IN /\ Len(v) = Len(first)
         /\ \A j \in 1..Len(v) :
              /\ v[j].slug = first[j].slug
              /\ v[j].title =
                   IF /\ docCache[items[j].fileKey].st = "fulfilled"
                      /\ ExtractHeading(docFiles[items[j].fileKey]).has
                     THEN ExtractHeading(docFiles[items[j].fileKey]).text
                     ELSE first[j].title
         /\ invs[i].language = "en" =>
              /\ v[1].slug = "index" /\ v[2].slug = "intro"
              /\ v[1].title = IF fetch["../content/en/index.md"] = "ok" THEN "Home" ELSE "Index"
              /\ v[2].title = "Intro"

\* both documents of en loaded and the list with the extracted title of
\* index.md is shown
C10_Witness ==
  /\ Cur > 0
  /\ invs[Cur].language = "en"
  /\ fetch["../content/en/index.md"] = "ok"
  /\ fetch["../content/en/001_intro.md"] = "ok"
  /\ Cardinality(TopicsAt(Cur)) = 2
  /\ topics = << [slug |-> "index", title |-> "Home"], [slug |-> "intro", title |-> "Intro"] >>

\* C11: the stage-2 republish is one swap: an effect run publishes at most
\* two topic lists, its stage-1 list and then the list Promise.all
\* delivered; that second list is published only when every stage-2 load of
\* the run has settled and every element has been stored, so no list with
\* only some of the loaded titles is published; the list shown for the
\* current run is one of the two.
C11_AtomicRepublish ==
  \A i \in Invocations :
    LET items == ItemsOf[invs[i].language] IN
      /\ Cardinality(TopicsAt(i)) <= 2
      /\ \A n \in TopicsAt(i) :
           n # FirstOf(LogOf(i)) =>
             /\ invs[i].remaining = 0
             /\ \A j \in 1..Len(items) : Settled(items[j].fileKey)
             /\ log[n].val = invs[i].values
             /\ \A j \in 1..Len(log[n].val) : log[n].val[j] # NoTopic
      /\ i = Cur => topics \in {log[n].val : n \in TopicsAt(i)}

\* the title of index.md has been extracted and stored by Promise.all while
\* 001_intro.md is still loading: the list shown is still the stage-1 list
C11_Witness ==
  /\ Cur > 0
  /\ invs[Cur].language = "en"
  /\ invs[Cur].values[1].title = "Home"
  /\ invs[Cur].remaining = 1
  /\ ~Settled("../content/en/001_intro.md")
  /\ Cardinality(TopicsAt(Cur)) = 1
  /\ topics = << [slug |-> "index", title |-> "Index"], [slug |-> "intro", title |-> "Intro"] >>

\* keys the store does not hold
UnknownKeys == {"../content/en/bogus.md", "../content/ko/001_intro.md", "../content/fr/index.md"}

\* the jobs that deliver the outcome of a loadDoc promise of key k
Deliveries(k) ==
  {n \in 1..Len(queue) : queue[n].k = k /\ queue[n].t \in {"thenA", "catchB", "await"}}

\* C12: a failed load is never cached as a success. loadDoc of a key the
\* store does not hold returns a rejected promise and adds no cache entry
\* and starts no fetch; a cached promise is fulfilled only when the fetch of
\* its key succeeded, so after a failed fetch every loadDoc of the key, now
\* or later, hands out a promise that is not fulfilled and every delivery
\* made for the key is a rejection.
C12_FailureNotCached ==
  /\ \A u \in UnknownKeys :
       LET R == loadDoc(Heap, u) IN
         /\ ~R.ret.cached
         /\ R.docCache = docCache
         /\ R.calls = calls /\ R.fetch = fetch
         /\ Then(R, Job("await", 1, 1, u, TRUE, NoTopic)).queue
              = Append(queue, Job("await", 1, 1, u, FALSE, NoTopic))
  /\ \A k \in DOMAIN docCache : docCache[k].st = "fulfilled" => fetch[k] = "ok"
  /\ \A k \in KnownKeys :
       fetch[k] = "failed" =>
         LET R == loadDoc(Heap, k) IN
           /\ R.ret.cached
           /\ R.docCache = docCache
           /\ R.docCache[k].st # "fulfilled"
           /\ R.calls = calls /\ R.fetch = fetch
           /\ \A n \in Deliveries(k) : ~queue[n].ok

\* the fetch of a document failed while run 1 was current, which showed its
\* placeholder; run 2 asked for the same document again, got the cached
\* rejection and shows its own placeholder
C12_Witness ==
  /\ Cur = 2
  /\ KeyOf(1) = KeyOf(2)
  /\ HasDoc(KeyOf(2))
  /\ fetch[KeyOf(2)] = "failed"
  /\ docCache[KeyOf(2)].st = "rejected"
  /\ HasContent(1)
  /\ HasContent(2)
  /\ content = "# 404\nNot found: " \o invs[2].language \o "/" \o invs[2].desired

\* C13: the cache is write-once per key and nothing is evicted: an entry
\* that exists stays, a settled entry never changes (so every later load of
\* a loaded key gets the identical pair), and once a key has an entry its
\* loader is never called again, also when its one fetch failed.
C13_WriteOnce ==
  [][ \A k \in KnownKeys :
        /\ calls'[k] <= 1
        /\ k \in DOMAIN docCache =>
             /\ k \in DOMAIN docCache'
             /\ calls'[k] = calls[k]
             /\ docCache[k].st # "pending" => docCache'[k] = docCache[k]
             /\ docCache'[k].st = "fulfilled" => docCache'[k].val = LoadedDoc[k]
             /\ loadDoc(Heap', k).docCache = docCache'
    ]_vars

\* index.md loaded and 001_intro.md failed while run 1 was current; run 2
\* asked for both again and finished its stage 2: one loader call each
C13_Witness ==
  /\ Cur = 2
  /\ invs[1].language = "en" /\ invs[2].language = "en"
  /\ docCache["../content/en/index.md"].st = "fulfilled"
  /\ docCache["../content/en/001_intro.md"].st = "rejected"
  /\ Cardinality(TopicsAt(1)) = 2
  /\ Cardinality(TopicsAt(2)) = 2
  /\ calls["../content/en/index.md"] = 1
  /\ calls["../content/en/001_intro.md"] = 1

\* the order and the displaySlug the enumeration rule gives each stem
ExpectedItem ==
  [ index          |-> [order |-> NegInf, displaySlug |-> "index"],
    readme         |-> [order |-> PosInf, displaySlug |-> "readme"],
    about          |-> [order |-> PosInf, displaySlug |-> "about"] ]
  @@ ("001_intro"    :> [order |-> 1, displaySlug |-> "intro"])
  @@ ("010-advanced" :> [order |-> 10, displaySlug |-> "advanced"])
  @@ ("12_"          :> [order |-> PosInf, displaySlug |-> "12_"])
  @@ ("1_a"          :> [order |-> PosInf, displaySlug |-> "1_a"])
  @@ ("0001_x"       :> [order |-> PosInf, displaySlug |-> "0001_x"])
  @@ ("02-b"         :> [order |-> 2, displaySlug |-> "b"])
  @@ ("02_a"         :> [order |-> 2, displaySlug |-> "a"])
  @@ ("01-intro"     :> [order |-> 1, displaySlug |-> "intro"])

DisplaySlugs(items) == [j \in 1..Len(items) |-> items[j].displaySlug]

\* C14: enumeration order. Two or three digits, _ or -, and a non-empty
\* remainder give order = the digits in base 10 and displaySlug = the
\* remainder; index gets minus infinity; every other stem plus infinity and
\* itself as displaySlug. The items are the enumerated keys sorted ascending
\* by order, equal orders by the comparison of the fallback titles: index
\* first, numbered documents ascending, the others last; index, 001_intro,
\* 010-advanced, readme come out as index, intro, advanced, readme from
\* every enumeration order.
C14_EnumerationOrder ==
  fnRes.done =>
    LET items == fnRes.val
        P == 1..Len(items)
    IN /\ Len(items) = Len(fnArg)
       /\ {items[j].fileKey : j \in P} = {fnArg[j] : j \in 1..Len(fnArg)}
       /\ \A j \in P :
            /\ items[j].fileKey = StemKey(items[j].slug)
            /\ items[j].order = ExpectedItem[items[j].slug].order
            /\ items[j].displaySlug = ExpectedItem[items[j].slug].displaySlug
       /\ \A j \in P : \A h \in P :
            j < h =>
              /\ items[j].order <= items[h].order
              /\ items[j].order = items[h].order
                   => LocaleCompare(items[j].title, items[h].title) <= 0
              /\ items[h].slug # "index"
              /\ items[j].order = PosInf => items[h].order = PosInf
              /\ ~(items[j].slug = "02-b" /\ items[h].slug = "02_a")
              /\ ~(items[j].slug = "readme" /\ items[h].slug = "about")
       /\ {items[j].slug : j \in P} = {"index", "001_intro", "010-advanced", "readme"}
            => DisplaySlugs(items) = <<"index", "intro", "advanced", "readme">>

\* the four documents of the example, enumerated in the reverse of their
\* sorted order
C14_Witness ==
  /\ fnRes.done
  /\ fnArg = << StemKey("readme"), StemKey("010-advanced"), StemKey("001_intro"), StemKey("index") >>
  /\ DisplaySlugs(fnRes.val) = <<"index", "intro", "advanced", "readme">>

\* the enumerations of the same keys in every other order
Reorderings(keys) ==
  LET n == Len(keys) IN
    {[j \in 1..n |-> keys[f[j]]] :
       f \in {g \in [1..n -> 1..n] : \A a, b \in 1..n : a # b => g[a] # g[b]}}

\* C15: the document selected for a slug depends on the set of keys alone:
\* every order in which the store enumerates the same keys selects the same
\* document for every displaySlug, also when several documents share it.
C15_EnumerationIndependent ==
  fnRes.done =>
    \A keys \in Reorderings(fnArg) :
      \A j \in 1..Len(fnRes.val) :
        FindBySlug(ItemsFrom(keys), fnRes.val[j].displaySlug)
          = FindBySlug(fnRes.val, fnRes.val[j].displaySlug)

Absent == [has |-> FALSE, text |-> ""]

Present(text) == [has |-> TRUE, text |-> text]

\* the lines of a raw text, line ends unified
RawLines(raw) == SplitLines(UnifyEol(raw))

\* number of "#" a line starts with, blanks before them skipped
HashCount(line) == SkipHashes(TrimStart(line), 1) - 1

\* what follows the "#" run of a line
AfterHashes(line) == From(TrimStart(line), HashCount(line) + 1)

\* a line of one or more "#", white space, then text
IsHeadingLine(line) ==
  /\ HashCount(line) >= 1
  /\ Len(AfterHashes(line)) > 0
  /\ Ch(AfterHashes(line), 1) \in WhiteSpace
  /\ Trim(AfterHashes(line)) # ""

\* C16: the extracted title is the trimmed text of the first line that is
\* one or more "#", a blank and text, whatever its level, and a document
\* without such a line has no extracted title.
C16_AnyLevelHeading ==
  fnRes.done =>
    LET lines == RawLines(fnArg)
        H == {a \in 1..Len(lines) : IsHeadingLine(lines[a])}
    IN fnRes.val.title =
         IF H = {} THEN Absent
         ELSE Present(Trim(AfterHashes(lines[CHOOSE a \in H : \A b \in H : a <= b])))

\* a line whose first character after blanks is a single "#" that ends the
\* line or is followed by white space
IsMarkerLine(line) ==
  /\ HashCount(line) = 1
  /\ Len(AfterHashes(line)) = 0 \/ Ch(AfterHashes(line), 1) \in WhiteSpace

\* the title the first marker line a of lines gives
MarkerTitle(lines, a) ==
  LET rest == AfterHashes(lines[a])
      later == {b \in (a + 1)..Len(lines) : Trim(lines[b]) # ""}
      blanks == Len(rest) >= 2 \/ \E b \in (a + 1)..Len(lines) : Len(lines[b]) > 0
  IN IF Trim(rest) # "" THEN Present(Trim(rest))
     ELSE IF later # {} THEN Present(Trim(lines[CHOOSE b \in later : \A c \in later : b <= c]))
     ELSE IF blanks THEN Present("")
     ELSE Absent

\* C16 as amended: the extracted title comes from the first line, top to
\* bottom, that is optional white space, exactly one "#" and then white
\* space or the line end; lines starting with two or more "#" never count.
\* It is the trimmed rest of that line; when that rest is blank, the trimmed
\* next non-blank line; when only white space follows, the empty string if
\* a blank or tab lies beyond the first character after the "#", else
\* nothing. Without such a line there is no extracted title.
C16_FirstLevelOneHeading ==
  fnRes.done =>
    LET lines == RawLines(fnArg)
        M == {a \in 1..Len(lines) : IsMarkerLine(lines[a])}
    IN fnRes.val.title =
         IF M = {} THEN Absent
         ELSE MarkerTitle(lines, CHOOSE a \in M : \A b \in M : a <= b)

\* a document whose first heading is of level 2 and whose second is of
\* level 1: the title is the text of the second
C16_Witness ==
  /\ fnRes.done
  /\ fnArg = "## Sub\r\n  # Main title \r\ntext"
  /\ fnRes.val.title = Present("Main title")

\* a line whose first three characters after leading white space are fence
\* characters
IsFenceLine(line) ==
  \E p \in 1..Len(line) :
    /\ \A h \in 1..(p - 1) : Ch(line, h) \in WhiteSpace
    /\ p + 2 <= Len(line)
    /\ \A h \in p..(p + 2) : Ch(line, h) = Tick

\* line i lies between an opening fence line and the next fence line: an
\* odd number of fence lines precede it
InsideFence(lines, i) ==
  Cardinality({h \in 1..(i - 1) : IsFenceLine(lines[h])}) % 2 = 1

Fenced(lines, i) == IsFenceLine(lines[i]) \/ InsideFence(lines, i)

\* C17: fences. A line that starts, after leading white space, with three
\* fence characters toggles the fence state, in strict alternation, and is
\* emitted as it is; every line inside a fence is emitted as it is (the line
\* ends unified): no break marker on a fence line or inside a fence is
\* replaced.
C17_FencesUntouched ==
  fnRes.done =>
    LET lines == RawLines(fnArg)
        out == fnRes.val.out
    IN /\ Len(out) = Len(lines)
       /\ \A i \in 1..Len(lines) : Fenced(lines, i) => out[i] = lines[i]

\* a break marker inside a fence stays and the same marker after the closing
\* fence line is replaced
C17_Witness ==
  /\ fnRes.done
  /\ fnArg = "~~~\n<br>\n~~~\n<br>"
  /\ fnRes.val.out = <<"~~~", "<br>", "~~~", "\n">>
  /\ fnRes.val.text = "~~~\n<br>\n~~~\n\n"

\* the break markers the claim lists, in lower case
ListedMarkers == {"<br>", "<br/>", "<br />"}

\* t holds one of the listed markers, in any letter case, at position i and
\* through position e, followed by white space or the end of the line
ListedMarkerAt(t, i, e) ==
  /\ e <= Len(t)
  /\ LowerCase(SubSeq(t, i, e)) \in ListedMarkers
  /\ e = Len(t) \/ Ch(t, e + 1) \in WhiteSpace

\* t holds "<br", any white space, an optional "/" and ">" at position i and
\* through position e, followed by white space or the end of the line
AnyMarkerAt(t, i, e) ==
  /\ i + 3 <= e /\ e <= Len(t)
  /\ LowerCase(SubSeq(t, i, i + 2)) = "<br"
  /\ Ch(t, e) = ">"
  /\ \E m \in (i + 3)..e :
       /\ \A h \in (i + 3)..(m - 1) : Ch(t, h) \in WhiteSpace
       /\ m = e \/ (m = e - 1 /\ Ch(t, m) = "/")
  /\ e = Len(t) \/ Ch(t, e + 1) \in WhiteSpace

MarkerAt(t, i, e, listed) == IF listed THEN ListedMarkerAt(t, i, e) ELSE AnyMarkerAt(t, i, e)

\* the line t from position i on with every marker replaced by a line break
\* and everything else kept
RECURSIVE MarkersReplaced(_, _, _)
MarkersReplaced(t, i, listed) ==
  IF i > Len(t) THEN ""
  ELSE IF \E e \in i..Len(t) : MarkerAt(t, i, e, listed)
    THEN "\n" \o MarkersReplaced(t, 1 + CHOOSE e \in i..Len(t) : MarkerAt(t, i, e, listed), listed)
  ELSE Ch(t, i) \o MarkersReplaced(t, i + 1, listed)

\* the output has no carriage return and every line outside the fences is
\* its input line with the markers replaced
BreaksReplaced(listed) ==
  fnRes.done =>
    LET lines == RawLines(fnArg)
        out == fnRes.val.out
    IN /\ \A h \in 1..Len(fnRes.val.text) : Ch(fnRes.val.text, h) # "\r"
       /\ fnRes.val.text = JoinLines(out)
       /\ Len(out) = Len(lines)
       /\ \A i \in 1..Len(lines) :
            ~Fenced(lines, i) => out[i] = MarkersReplaced(lines[i], 1, listed)

\* C18: outside fences. The output holds no carriage return, and on every
\* line outside a fenced region each break marker <br>, <br/> or <br />, in
\* any letter case, that white space or the line end follows is replaced by
\* a line break while all other text of the line is unchanged.
C18_ListedBreaksReplaced == BreaksReplaced(TRUE)

\* C18 as amended: the same, the break markers being every "<br", any
\* amount of white space, an optional "/" and ">", in any letter case, that
\* white space or the line end follows.
C18_BreaksReplaced == BreaksReplaced(FALSE)

\* carriage returns of both kinds, a marker with a blank before ">", a
\* marker that text follows
C18_Witness ==
  /\ fnRes.done
  /\ fnArg = "Welcome<BR/> all\r\nx<br >\rno<br>x"
  /\ fnRes.val.text = "Welcome\n all\nx\n\nno<br>x"

\* the characters of t that lie in the set keep, in order
RECURSIVE Only(_, _)
Only(t, keep) ==
  IF Len(t) = 0 THEN ""
  ELSE (IF Ch(t, 1) \in keep THEN Ch(t, 1) ELSE "") \o Only(From(t, 2), keep)

\* C19: slugify is idempotent and its output holds lower-case letters,
\* digits and hyphens only, no white space: the letters and digits of the
\* lower-cased input in their order, the other characters removed, no
\* hyphen for leading or trailing white space and one hyphen for each run
\* of white space inside.
C19_SlugifyIdempotent ==
  fnRes.done =>
    /\ \A h \in 1..Len(fnRes.val) : Ch(fnRes.val, h) \in LowerSet \cup Digits \cup {"-"}
    /\ slugify(fnRes.val) = fnRes.val
    /\ Only(fnRes.val, LowerSet \cup Digits) = Only(LowerCase(fnArg), LowerSet \cup Digits)
    /\ Len(Only(fnRes.val, {"-"})) >= Len(Only(fnArg, {"-"}))
    /\ fnArg = "  Getting   Started  " => fnRes.val = "getting-started"
    /\ fnArg = "API - v2_x" => fnRes.val = "api---v2x"
    /\ fnArg = "\tTab\tand\nline " => fnRes.val = "tab-and-line"
    /\ fnArg = " a\t " => fnRes.val = "a"
    /\ fnArg = "a \tB" => fnRes.val = "a-b"

\* punctuation is removed, upper case lowered and each blank becomes a hyphen
C19_Witness ==
  /\ fnRes.done
  /\ fnArg = "Hello, World! 2.0"
  /\ fnRes.val = "hello-world-20"
  /\ slugify("hello-world-20") = "hello-world-20"

\* a line whose trimmed form is one to six "#", white space and text
IsOutlineLine(line) ==
  LET t == Trim(line) IN
    /\ HashCount(t) \in 1..6
    /\ Len(AfterHashes(t)) > 0
    /\ Ch(AfterHashes(t), 1) \in WhiteSpace

\* t without the fence character
RECURSIVE Unticked(_)
Unticked(t) ==
  IF Len(t) = 0 THEN ""
  ELSE IF Ch(t, 1) = Tick THEN Unticked(From(t, 2))
  ELSE Ch(t, 1) \o Unticked(From(t, 2))

\* C20: the outline has exactly one entry for each line of the content
\* whose trimmed form is one to six "#", white space and text, in document
\* order: level the number of "#", text the rest with the backticks removed
\* and trimmed, id the slug of the text. Nothing is filtered or merged: two
\* headings with the same text give two entries with equal ids, and heading
\* lines inside fenced code are entries too.
C20_OutlineEntries ==
  fnRes.done =>
    LET hl == SelectSeq(SplitLines(fnArg), IsOutlineLine)
    IN /\ Len(fnRes.val) = Len(hl)
       /\ \A k \in 1..Len(hl) :
            /\ fnRes.val[k].level = HashCount(hl[k])
            /\ fnRes.val[k].text = Trim(Unticked(AfterHashes(hl[k])))
            /\ fnRes.val[k].id = slugify(fnRes.val[k].text)
       /\ fnArg = "# Title\n\nSome text\n## Sub ~code~ Heading\n" =>
            fnRes.val = << [id |-> "title", text |-> "Title", level |-> 1],
                           [id |-> "sub-code-heading", text |-> "Sub code Heading", level |-> 2] >>

\* two headings with the same text and one inside a fence: three entries,
\* the first and the last with the same id
C20_Witness ==
  /\ fnRes.done
  /\ fnArg = "# A\n~~~\n## in ~fence~\n~~~\n# A"
  /\ fnRes.val = << [id |-> "a", text |-> "A", level |-> 1],
                    [id |-> "in-fence", text |-> "in fence", level |-> 2],
                    [id |-> "a", text |-> "A", level |-> 1] >>

\* C21: stage 2 tolerates failed loads. Once every load has settled and
\* every continuation has run, the current effect run has republished its
\* list: an entry whose document failed to load keeps its fallback title,
\* an entry whose document loaded has its extracted title if it has one,
\* and no rejection of a stage-2 load reaches Promise.all.
C21_Stage2ToleratesFailure ==
  /\ ~escaped
  /\ (Cur > 0 /\ Quiet) =>
       LET items == ItemsOf[invs[Cur].language]
       IN /\ Cardinality(TopicsAt(Cur)) = 2
          /\ Len(topics) = Len(items)
          /\ \A j \in 1..Len(items) :
               /\ topics[j].slug = items[j].displaySlug
               /\ fetch[items[j].fileKey] = "failed" => topics[j].title = items[j].title
               /\ fetch[items[j].fileKey] = "ok" =>
                    topics[j].title = TitleOf(LoadedDoc[items[j].fileKey], items[j].title)

\* the load of 001_intro.md failed and the one of index.md succeeded: the
\* list is republished with the extracted title of index.md and the
\* fallback title of 001_intro.md
C21_Witness ==
  /\ Cur > 0
  /\ invs[Cur].language = "en"
  /\ Quiet
  /\ fetch["../content/en/001_intro.md"] = "failed"
  /\ fetch["../content/en/index.md"] = "ok"
  /\ Cardinality(TopicsAt(Cur)) = 2
  /\ topics = << [slug |-> "index", title |-> "Home"], [slug |-> "intro", title |-> "Intro"] >>

\* sequence a is an initial part of sequence b
IsPrefix(a, b) == Len(a) <= Len(b) /\ SubSeq(b, 1, Len(a)) = a

\* the step starts an effect run that supersedes another one
Supersedes == Cur > 0 /\ Len(invs') = Cur + 1

\* C22: cancellation does not touch the cache. The step that supersedes an
\* effect run keeps every cache entry, every fetch in flight and every
\* reaction waiting on them, and calls the loader of no key that has an
\* entry; the load of a key still settles its cache entry when its fetch
\* has settled, whether or not the runs that asked for it are cancelled.
C22_CancelKeepsCache ==
  [][ /\ Supersedes =>
           /\ invs'[Cur].cancelled
           /\ IsPrefix(queue, queue')
           /\ \A k \in DOMAIN docCache :
                /\ k \in DOMAIN docCache'
                /\ docCache'[k] = docCache[k]
                /\ fetch'[k] = fetch[k]
                /\ calls'[k] = calls[k]
                /\ IsPrefix(react[k], react'[k])
      /\ \A k \in KnownKeys :
           (fetch'[k] \in {"ok", "failed"} /\ \A n \in 1..Len(queue') : ~(queue'[n].t = "iife" /\ queue'[n].k = k))
             => /\ k \in DOMAIN docCache'
                /\ docCache'[k].st = IF fetch'[k] = "ok" THEN "fulfilled" ELSE "rejected"
    ]_vars

\* run 1 was superseded while the document both runs resolve was loading:
\* the fetch is still in flight, called once, and the continuations of both
\* runs wait on the one cached promise
C22_Witness ==
  /\ Cur = 2
  /\ invs[1].cancelled
  /\ KeyOf(1) = KeyOf(2)
  /\ HasDoc(KeyOf(2))
  /\ docCache[KeyOf(2)].st = "pending"
  /\ fetch[KeyOf(2)] = "inflight"
  /\ calls[KeyOf(2)] = 1
  /\ \E a, b \in 1..Len(react[KeyOf(2)]) :
       /\ react[KeyOf(2)][a].t = "thenA" /\ react[KeyOf(2)][a].i = 1
       /\ react[KeyOf(2)][b].t = "thenA" /\ react[KeyOf(2)][b].i = 2

\* the keys of the entries effect run i enumerated
EnumeratedKeys(i) ==
  {ItemsOf[invs[i].language][j].fileKey : j \in 1..Len(ItemsOf[invs[i].language])}

\* effect run i resolved its key through the direct key, no displaySlug
\* being equal to the requested slug
ViaDirectKey(i) ==
  /\ KeyOf(i) # NoKey
  /\ \A j \in 1..Len(ItemsOf[invs[i].language]) :
       ItemsOf[invs[i].language][j].displaySlug # invs[i].desired

\* C23: a resolved key is the key of an enumerated entry of the requested
\* language, so its load is started by stage 2 too and Promise.all of the
\* run is not fulfilled before that load has settled; when the key was
\* resolved through the direct key, the requested slug is no slug of the
\* list shown, no entry is shown as current and neither a previous nor a
\* next link is offered.
C23_ResolvedIsEnumerated ==
  /\ \A i \in Invocations :
       KeyOf(i) # NoKey =>
         /\ KeyOf(i) \in EnumeratedKeys(i)
         /\ StartsWith(KeyOf(i), "../content/" \o invs[i].language \o "/")
         /\ KeyOf(i) \in DOMAIN docCache
         /\ invs[i].remaining = 0 => Settled(KeyOf(i))
  /\ (Cur > 0 /\ ViaDirectKey(Cur)) =>
       /\ \A j \in 1..Len(topics) : topics[j].slug # currentTopic
       /\ FindIndex(topics, currentTopic) = -1
       /\ CurrentEntries(topics, currentTopic) = {}
       /\ PrevTopic(topics, currentTopic) = NoTopic
       /\ NextTopic(topics, currentTopic) = NoTopic

\* en/001_intro is resolved through the direct key and shown, stage 2 has
\* republished the list, and the page marks no topic and offers no sibling
C23_Witness ==
  /\ Cur > 0
  /\ invs[Cur].language = "en" /\ currentTopic = "001_intro"
  /\ ViaDirectKey(Cur)
  /\ KeyOf(Cur) = "../content/en/001_intro.md"
  /\ content = LoadedDoc[KeyOf(Cur)].normalized
  /\ Cardinality(TopicsAt(Cur)) = 2
  /\ topics = << [slug |-> "index", title |-> "Home"], [slug |-> "intro", title |-> "Intro"] >>
  /\ PrevTopic(topics, currentTopic) = NoTopic
  /\ NextTopic(topics, currentTopic) = NoTopic

====
